---- MODULE Spec2Model ----
(***************************************************************************)
(* A model of the fire-fasta parser (src/src/lib.rs): parse_fasta's        *)
(* boundary scan over an immutable byte buffer, the lazy newline filter    *)
(* iter(), and the compaction routine copy_sequential().                   *)
(*                                                                         *)
(* Bytes are numbers 0..255.  Rust indices are 0-based; a TLA+ sequence is *)
(* 1-based, so data[i] of the source is data[i + 1] here.  A borrowed      *)
(* slice &data[a..b] is the span [off |-> a, len |-> b - a] into data.     *)
(* An out-of-range index or slice range is a panic, recorded in `panic`.   *)
(***************************************************************************)
EXTENDS Integers, Sequences, FiniteSets

\* Longest input buffer explored.
MaxLen == 6

\* b'>' and b'\n', the two structural marker bytes.
GT == 62
NL == 10

\* Input alphabet: the two markers and two ordinary bytes ('A', 'C').
Bytes == {GT, NL, 65, 67}

Buffers == UNION {[1..n -> Bytes] : n \in 0..MaxLen}

VARIABLES
    data,        \* the input buffer (immutable)
    pc,          \* position in parse_fasta / copy_sequential
    cursor,      \* parse_fasta: cursor
    description, \* parse_fasta: description span of the current iteration
    sequences,   \* parse_fasta: the Vec of records built so far
    result,      \* parse_fasta: the returned Result
    self,        \* copy_sequential: the record it is called on
    buffer,      \* copy_sequential: the output Vec's contents
    capacity,    \* copy_sequential: the output Vec's allocated capacity
    target,      \* copy_sequential: write offset
    pos,         \* copy_sequential: read offset
    boxed,       \* copy_sequential: the returned Box<[u8]>
    allocs,      \* heap blocks obtained by copy_sequential
    reallocs,    \* resize requests made on copy_sequential's block
    panic        \* TRUE once an index or slice range was out of bounds

vars == <<data, pc, cursor, description, sequences, result, self, buffer,
          capacity, target, pos, boxed, allocs, reallocs, panic>>

parseVars == <<cursor, description, sequences, result>>
copyVars == <<self, buffer, capacity, target, pos, boxed, allocs, reallocs>>

----------------------------------------------------------------------------
(* Slices *)

Span(off, len) == [off |-> off, len |-> len]

NoSpan == Span(0, 0)

\* The bytes a span borrows from d.
SliceBytes(d, s) == SubSeq(d, s.off + 1, s.off + s.len)

\* &d[a..b] is in bounds.
RangeOk(a, b, n) == a <= b /\ b <= n

\* memchr(needle, &d[from..]): offset of the first needle at or after from,
\* relative to from; -1 stands for None.
Memchr(needle, d, from) ==
    LET hits == {k \in 0..(Len(d) - from - 1) : d[from + k + 1] = needle}
    IN  IF hits = {} THEN -1
        ELSE CHOOSE k \in hits : \A j \in hits : k <= j

\* opt.unwrap_or(dflt)
UnwrapOr(opt, dflt) == IF opt = -1 THEN dflt ELSE opt

FastaSequence(desc, seq) == [description |-> desc, sequence |-> seq]

Ok(seqs) == [kind |-> "Ok", invalid |-> -1, sequences |-> seqs]

InvalidDescription(b) ==
    [kind |-> "InvalidDescription", invalid |-> b, sequences |-> <<>>]

EmptySequence == [kind |-> "EmptySequence", invalid |-> -1, sequences |-> <<>>]

NoResult == [kind |-> "None", invalid |-> -1, sequences |-> <<>>]

----------------------------------------------------------------------------
(* parse_fasta *)

Init ==
    /\ data \in Buffers
    /\ pc = "start"
    /\ cursor = 0
    /\ description = NoSpan
    /\ sequences = <<>>
    /\ result = NoResult
    /\ self = FastaSequence(NoSpan, NoSpan)
    /\ buffer = <<>>
    /\ capacity = 0
    /\ target = 0
    /\ pos = 0
    /\ boxed = <<>>
    /\ allocs = 0
    /\ reallocs = 0
    /\ panic = FALSE

\* Leave the running function by a panic.
Abort ==
    /\ panic' = TRUE
    /\ pc' = "panicked"
    /\ UNCHANGED <<data, parseVars, copyVars>>

\* Mutant: no early return for the empty buffer.
ParseStart_NoEmptyCheck ==
    /\ pc = "start"
    /\ sequences' = <<>>
    /\ cursor' = 0
    /\ pc' = "expect"
    /\ UNCHANGED <<data, description, result, copyVars, panic>>

\* let mut sequences = Vec::new(); if data.is_empty() { return Ok }; cursor = 0
ParseStart ==
    /\ pc = "start"
    /\ sequences' = <<>>
    /\ IF Len(data) = 0
       THEN /\ result' = Ok(sequences')
            /\ pc' = "done"
            /\ UNCHANGED cursor
       ELSE /\ cursor' = 0
            /\ pc' = "expect"
            /\ UNCHANGED result
    /\ UNCHANGED <<data, description, copyVars, panic>>

\* expect(data, expected, &mut cursor): the returned bool and the new cursor.
Expect(d, expected, cur) ==
    IF d[cur + 1] = expected
    THEN [ok |-> TRUE, cursor |-> cur + 1]
    ELSE [ok |-> FALSE, cursor |-> cur]

\* if !expect(data, b'>', &mut cursor) { return Err(InvalidDescription) }
ParseExpect ==
    /\ pc = "expect"
    /\ IF cursor >= Len(data)
       THEN Abort
       ELSE LET e == Expect(data, GT, cursor)
            IN  /\ cursor' = e.cursor
                /\ IF e.ok
                   THEN /\ pc' = "header"
                        /\ UNCHANGED result
                   ELSE /\ result' = InvalidDescription(data[e.cursor + 1])
                        /\ pc' = "done"
                /\ UNCHANGED <<data, description, sequences, copyVars, panic>>

\* memchr(b'\n', &data[cursor..]).unwrap_or(data.len() - cursor)
HeaderEnd(d, cur) == UnwrapOr(Memchr(NL, d, cur), Len(d) - cur)

\* Mutant: the description span swallows its terminating newline.
DescriptionSpan_WithNewline(cur, header_end) == Span(cur, header_end + 1)

\* &data[cursor..cursor + header_end]
DescriptionSpan(cur, header_end) == Span(cur, header_end)

\* Mutant: the cursor stops on the newline instead of passing it.
HeaderAdvance_NoSkip(cur, header_end) == cur + header_end

\* cursor += header_end + 1
HeaderAdvance(cur, header_end) == cur + header_end + 1

\* Mutant: off-by-one end test (> for >=).
NoSequenceFollows_Strict(cur, d) == cur > Len(d)

\* if cursor >= data.len() { return Err(EmptySequence) }
NoSequenceFollows(cur, d) == cur >= Len(d)

ParseHeader ==
    /\ pc = "header"
    /\ IF cursor > Len(data)
       THEN Abort
       ELSE LET header_end == HeaderEnd(data, cursor)
                desc == DescriptionSpan(cursor, header_end)
            IN  IF ~RangeOk(desc.off, desc.off + desc.len, Len(data))
                THEN Abort
                ELSE /\ description' = desc
                     /\ cursor' = HeaderAdvance(cursor, header_end)
                     /\ IF NoSequenceFollows(cursor', data)
                        THEN /\ result' = EmptySequence
                             /\ pc' = "done"
                        ELSE /\ pc' = "sequence"
                             /\ UNCHANGED result
                     /\ UNCHANGED <<data, sequences, copyVars, panic>>

\* Mutant: the body scan stops at a newline instead of at `>`.
SequenceEnd_AtNewline(d, cur) == UnwrapOr(Memchr(NL, d, cur), Len(d) - cur)

\* memchr(b'>', &data[cursor..]).unwrap_or(data.len() - cursor)
SequenceEnd(d, cur) == UnwrapOr(Memchr(GT, d, cur), Len(d) - cur)

\* &data[cursor..cursor + sequence_end]
SequenceSpan(cur, sequence_end) == Span(cur, sequence_end)

\* Mutant: the cursor is not moved past the body.
SequenceAdvance_Stay(cur, sequence_end) == cur

\* cursor += sequence_end
SequenceAdvance(cur, sequence_end) == cur + sequence_end

\* Mutant: off-by-one loop exit (> for >=).
ReachedEnd_Strict(cur, d) == cur > Len(d)

\* if cursor >= data.len() { break }
ReachedEnd(cur, d) == cur >= Len(d)

ParseSequence ==
    /\ pc = "sequence"
    /\ IF cursor > Len(data)
       THEN Abort
       ELSE LET sequence_end == SequenceEnd(data, cursor)
                seq == SequenceSpan(cursor, sequence_end)
            IN  IF ~RangeOk(seq.off, seq.off + seq.len, Len(data))
                THEN Abort
                ELSE /\ cursor' = SequenceAdvance(cursor, sequence_end)
                     /\ sequences' = Append(sequences, FastaSequence(description, seq))
                     /\ IF ReachedEnd(cursor', data)
                        THEN /\ result' = Ok(sequences')
                             /\ pc' = "done"
                        ELSE /\ pc' = "expect"
                             /\ UNCHANGED result
                     /\ UNCHANGED <<data, description, copyVars, panic>>

----------------------------------------------------------------------------
(* FastaSequence::iter, size_hint, copy_sequential *)

\* self.sequence.iter().filter(|&x| *x != b'\n')
Iter(d, rec) == SelectSeq(SliceBytes(d, rec.sequence), LAMBDA x : x # NL)

\* self.sequence.len()
SizeHint(rec) == rec.sequence.len

\* vec![0u8; n]
ZeroVec(n) == [k \in 1..n |-> 0]

\* let mut buffer = vec![0u8; self.size_hint()]; target = 0; pos = 0
\* A zero-length Vec owns no heap block.
CopyStart(i) ==
    /\ pc = "done"
    /\ result.kind = "Ok"
    /\ i \in 1..Len(result.sequences)
    /\ self' = result.sequences[i]
    /\ buffer' = ZeroVec(SizeHint(self'))
    /\ capacity' = SizeHint(self')
    /\ allocs' = IF SizeHint(self') > 0 THEN 1 ELSE 0
    /\ reallocs' = 0
    /\ target' = 0
    /\ pos' = 0
    /\ pc' = "copy_loop"
    /\ UNCHANGED <<data, parseVars, boxed, panic>>

\* memchr(b'\n', &self.sequence[pos..]).unwrap_or(self.sequence.len() - pos)
Pivot(s, p) == UnwrapOr(Memchr(NL, s, p), Len(s) - p)

\* buffer[target..target + pivot].copy_from_slice(&self.sequence[pos..pos + pivot])
CopyFromSlice(buf, tgt, s, p, pivot) ==
    [k \in 1..Len(buf) |->
        IF tgt < k /\ k <= tgt + pivot THEN s[p + (k - tgt)] ELSE buf[k]]

\* pos += pivot + 1
PosAdvance(p, pivot) == p + pivot + 1

\* Mutant: the write offset also steps over the newline.
TargetAdvance_SkipOne(tgt, pivot) == tgt + pivot + 1

\* target += pivot
TargetAdvance(tgt, pivot) == tgt + pivot

CopyLoop ==
    /\ pc = "copy_loop"
    /\ LET s == SliceBytes(data, self.sequence)
       IN  IF pos > Len(s)
           THEN Abort
           ELSE LET pivot == Pivot(s, pos)
                IN  IF \/ ~RangeOk(target, target + pivot, Len(buffer))
                       \/ ~RangeOk(pos, pos + pivot, Len(s))
                    THEN Abort
                    ELSE /\ buffer' = CopyFromSlice(buffer, target, s, pos, pivot)
                         /\ pos' = PosAdvance(pos, pivot)
                         /\ target' = TargetAdvance(target, pivot)
                         /\ pc' = IF pos' >= Len(s) THEN "copy_finish" ELSE "copy_loop"
                         /\ UNCHANGED <<data, parseVars, self, capacity, boxed,
                                        allocs, reallocs, panic>>

\* buffer.truncate(target): keeps the first target elements, capacity unchanged.
Truncate(buf, n) == IF n < Len(buf) THEN SubSeq(buf, 1, n) ELSE buf

\* buffer.into_boxed_slice() discards excess capacity first: with
\* len < capacity the block is resized to len.
NeedsShrink(len, cap) == len < cap

\* buffer.truncate(target); buffer.into_boxed_slice()
\* Shrinking to a non-zero length is a resize request on the block, and whether
\* it moves the bytes to a fresh block is the allocator's choice; shrinking to
\* length zero only frees the block.
CopyFinish ==
    /\ pc = "copy_finish"
    /\ buffer' = Truncate(buffer, target)
    /\ boxed' = buffer'
    /\ IF NeedsShrink(Len(buffer'), capacity)
       THEN /\ capacity' = Len(buffer')
            /\ IF Len(buffer') > 0
               THEN /\ reallocs' = reallocs + 1
                    /\ \E moved \in BOOLEAN :
                         allocs' = IF moved THEN allocs + 1 ELSE allocs
               ELSE UNCHANGED <<reallocs, allocs>>
       ELSE UNCHANGED <<reallocs, capacity, allocs>>
    /\ pc' = "copied"
    /\ UNCHANGED <<data, parseVars, self, target, pos, panic>>

----------------------------------------------------------------------------

Next ==
    \/ ParseStart
    \/ ParseExpect
    \/ ParseHeader
    \/ ParseSequence
    \/ \E i \in 1..MaxLen : CopyStart(i)
    \/ CopyLoop
    \/ CopyFinish

Spec == Init /\ [][Next]_vars

\* The code is sequential and runs each function to its return.
FairSpec == Spec /\ WF_vars(Next)

----------------------------------------------------------------------------
(* Vocabulary of the properties *)

\* parse_fasta has returned (its result outlives the later copy).
Returned == result.kind # "None"

\* parse_fasta is over: it returned or it panicked.
ParseOver == pc \notin {"start", "expect", "header", "sequence"}

Records == result.sequences

RECURSIVE RemoveNewlines(_)
RemoveNewlines(s) ==
    IF s = <<>> THEN <<>>
    ELSE IF Head(s) = NL THEN RemoveNewlines(Tail(s))
    ELSE <<Head(s)>> \o RemoveNewlines(Tail(s))

CountNewlines(s) == Cardinality({k \in 1..Len(s) : s[k] = NL})

\* 0-based position s holds a `>` that opens a record, in a buffer whose first
\* byte is `>`: position 0, or a `>` with a newline somewhere before it and no
\* other `>` between that newline and it.
IsBoundary(d, s) ==
    /\ d[s + 1] = GT
    /\ \/ s = 0
       \/ \E n \in 0..(s - 1) :
            /\ d[n + 1] = NL
            /\ \A k \in (n + 1)..(s - 1) : d[k + 1] # GT

Boundaries(d) == {s \in 0..(Len(d) - 1) : IsBoundary(d, s)}

LastBoundary(d) == CHOOSE s \in Boundaries(d) : \A t \in Boundaries(d) : t <= s

\* The last description line has no byte after it: no newline follows its `>`
\* except possibly as the very last byte of the buffer.
LastDescriptionHasNoBody(d) ==
    /\ Len(d) > 0
    /\ d[1] = GT
    /\ \A k \in (LastBoundary(d) + 1)..(Len(d) - 2) : d[k + 1] # NL

\* Some description's terminating newline is immediately followed by `>`.
DescriptionThenMarker(d) ==
    /\ Len(d) > 0
    /\ d[1] = GT
    /\ \E s \in Boundaries(d) : \E n \in (s + 1)..(Len(d) - 2) :
         /\ d[n + 1] = NL
         /\ \A k \in (s + 1)..(n - 1) : d[k + 1] # NL
         /\ d[n + 2] = GT

\* `>` ++ description ++ `\n` ++ raw_sequence
Rebuilt(d, rec) ==
    <<GT>> \o SliceBytes(d, rec.description) \o <<NL>> \o SliceBytes(d, rec.sequence)

RECURSIVE RebuiltAll(_, _)
RebuiltAll(d, recs) ==
    IF recs = <<>> THEN <<>>
    ELSE Rebuilt(d, Head(recs)) \o RebuiltAll(d, Tail(recs))

\* 0-based position of the `>` that opens rec.
RecordStart(rec) == rec.description.off - 1

\* 0-based position just past rec's raw sequence.
RecordEnd(rec) == rec.sequence.off + rec.sequence.len

----------------------------------------------------------------------------
(* C1 *)

\* C1: whenever parse_fasta returns Ok every record's raw sequence span has
\* length >= 1, and a buffer in which a description's terminating newline is
\* immediately followed by `>` yields Err(EmptySequence).
C1_RawSequenceNeverEmpty ==
    /\ result.kind = "Ok" =>
         \A i \in 1..Len(Records) : Records[i].sequence.len >= 1
    /\ (Returned /\ DescriptionThenMarker(data)) => result = EmptySequence

----------------------------------------------------------------------------
(* C2 *)

\* C2: parse_fasta returns InvalidDescription{invalid: b} exactly when the
\* buffer is non-empty and its first byte is not `>`, and then b is that first
\* byte; with a first byte `>` no later byte causes InvalidDescription.
C2_InvalidDescriptionOnlyAtStart ==
    ParseOver =>
        /\ (result.kind = "InvalidDescription") <=> (Len(data) > 0 /\ data[1] # GT)
        /\ (result.kind = "InvalidDescription") => result.invalid = data[1]
        /\ (result.kind # "InvalidDescription") => result.invalid = -1

C2_Witness ==
    /\ result.kind = "InvalidDescription"
    /\ result.invalid = NL
    /\ Len(data) > 1
    /\ data[2] = GT

----------------------------------------------------------------------------
(* C3 *)

\* C3: when the last description line has no byte after it (the buffer ends
\* inside it, or right after its terminating newline) parse_fasta returns
\* Err(EmptySequence) and no records, however many records preceded it.
C3_TrailingDescriptionIsEmptySequence ==
    (ParseOver /\ LastDescriptionHasNoBody(data)) => result = EmptySequence

C3_Witness ==
    /\ result = EmptySequence
    /\ LastDescriptionHasNoBody(data)
    /\ Len(sequences) >= 1
    /\ sequences[1].sequence.len >= 1

----------------------------------------------------------------------------
(* C4 *)

\* C4: on success each record rebuilt as `>` ++ description ++ `\n` ++
\* raw_sequence equals the contiguous slice of the input it was parsed from,
\* and the rebuilt records concatenated in order equal the whole buffer.
C4_RoundTrip ==
    result.kind = "Ok" =>
        /\ \A i \in 1..Len(Records) :
             /\ RecordStart(Records[i]) >= 0
             /\ RecordEnd(Records[i]) <= Len(data)
             /\ Rebuilt(data, Records[i]) =
                  SubSeq(data, RecordStart(Records[i]) + 1, RecordEnd(Records[i]))
        /\ RebuiltAll(data, Records) = data

C4_Witness ==
    /\ result.kind = "Ok"
    /\ Len(Records) >= 2
    /\ \A i \in 1..Len(Records) : Records[i].sequence.len >= 1

----------------------------------------------------------------------------
(* C5 *)

\* C5: for every raw sequence span the bytes of iter() equal the bytes
\* copy_sequential() returns, both are the span with every `\n` removed and the
\* other bytes in order, and the output length is the span length minus its
\* number of `\n` bytes.
C5_NewlineFilter ==
    pc = "copied" =>
        LET s == SliceBytes(data, self.sequence)
        IN  /\ boxed = Iter(data, self)
            /\ boxed = RemoveNewlines(s)
            /\ Len(boxed) = Len(s) - CountNewlines(s)

\* A span with a leading newline, consecutive newlines and a trailing newline.
C5_Witness ==
    /\ pc = "copied"
    /\ LET s == SliceBytes(data, self.sequence)
       IN  /\ Len(s) >= 4
           /\ s[1] = NL
           /\ s[Len(s)] = NL
           /\ s[Len(s) - 1] = NL
           /\ Len(boxed) = 1

----------------------------------------------------------------------------
(* C6 *)

\* C6: on success no raw sequence span contains `>` (the first `>` after the
\* description line ends the body and starts the next record), no description
\* contains `\n`, the raw span begins right after the `\n` that ends the
\* description, and a description of length zero is accepted.
C6_BoundaryBytes ==
    /\ result.kind = "Ok" =>
         \A i \in 1..Len(Records) :
            LET rec == Records[i]
                nl == rec.description.off + rec.description.len
            IN  /\ \A k \in 1..rec.sequence.len : SliceBytes(data, rec.sequence)[k] # GT
                /\ \A k \in 1..rec.description.len : SliceBytes(data, rec.description)[k] # NL
                /\ data[RecordStart(rec) + 1] = GT
                /\ data[nl + 1] = NL
                /\ rec.sequence.off = nl + 1
                /\ IF i < Len(Records)
                   THEN /\ data[RecordEnd(rec) + 1] = GT
                        /\ RecordStart(Records[i + 1]) = RecordEnd(rec)
                   ELSE RecordEnd(rec) = Len(data)
    /\ (Returned /\ data = <<GT, NL, 65>>) =>
         result = Ok(<<FastaSequence(Span(1, 0), Span(2, 1))>>)

\* A `>` in mid-line ended a body, and an empty description was accepted.
C6_Witness ==
    /\ result.kind = "Ok"
    /\ Len(Records) = 2
    /\ Records[2].description.len = 0
    /\ data[RecordStart(Records[2])] # NL

----------------------------------------------------------------------------
(* C7 *)

\* C7: on a zero-length buffer parse_fasta returns Ok with no records, never
\* an error; and only the zero-length buffer yields an empty record list.
C7_EmptyBuffer ==
    ParseOver =>
        /\ (Len(data) = 0) => result = Ok(<<>>)
        /\ (result.kind = "Ok" /\ Records = <<>>) => Len(data) = 0

C7_Witness == Len(data) = 0 /\ result = Ok(<<>>) /\ pc = "done"

----------------------------------------------------------------------------
(* C8 *)

\* C8: copy_sequential performs exactly one allocation for every raw sequence
\* span, and shortening the buffer and converting it to the boxed slice causes
\* no second allocation and no reallocation.
C8_SingleAllocation ==
    pc = "copied" => (allocs = 1 /\ reallocs = 0)

----------------------------------------------------------------------------
(* C9 *)

\* C9: no index or slice range used by parse_fasta, expect or copy_sequential
\* is ever out of bounds, so parse_fasta's outcome is Ok or one of the two
\* ParseError values, also when copy_sequential runs on a zero-length span.
C9_NoPanic ==
    /\ panic = FALSE
    /\ pc # "panicked"
    /\ ParseOver =>
         result.kind \in {"Ok", "InvalidDescription", "EmptySequence"}
    /\ pc \in {"copy_loop", "copy_finish", "copied"} =>
         /\ Len(buffer) <= SizeHint(self)
         /\ target <= Len(buffer)

C9_Witness ==
    /\ pc = "copied"
    /\ self.sequence.len = 0
    /\ boxed = <<>>

----------------------------------------------------------------------------
(* C10 *)

\* At the loop head the cursor is inside the buffer and is 0 or on a `>`;
\* k completed iterations have moved it by at least 2k.
C10_LoopHead ==
    pc = "expect" =>
        /\ cursor < Len(data)
        /\ cursor = 0 \/ data[cursor + 1] = GT
        /\ cursor > 0 => IsBoundary(data, cursor)
        /\ cursor >= 2 * Len(sequences)
        /\ sequences # <<>> => cursor >= RecordStart(sequences[Len(sequences)]) + 2

\* Records are stored in strictly increasing order of their buffer offset.
C10_FileOrder ==
    \A i \in 1..(Len(sequences) - 1) :
        RecordStart(sequences[i]) + 2 <= RecordStart(sequences[i + 1])

\* The cursor value at which the running loop iteration began.
IterationStart ==
    IF pc = "expect" THEN cursor
    ELSE IF pc = "header" THEN cursor - 1
    ELSE description.off - 1

\* This step ends a loop iteration: by looping back, by break or by return.
IterationEnds ==
    /\ pc \in {"expect", "header", "sequence"}
    /\ pc' = "expect" \/ ParseOver'

\* One step of the loop body: the cursor never moves back, and exactly the
\* completing step appends exactly one record.
C10_Step ==
    /\ cursor' >= cursor
    /\ (pc = "sequence" /\ pc' # "panicked") =>
         /\ Len(sequences') = Len(sequences) + 1
         /\ SubSeq(sequences', 1, Len(sequences)) = sequences
    /\ (pc # "sequence" /\ pc # "start") => sequences' = sequences

\* Every loop iteration leaves the cursor at least 2 past where it began.
C10_EveryIterationAdvances ==
    IterationEnds => cursor' >= IterationStart + 2

\* Every loop iteration that passes the `>` check leaves the cursor at least 2
\* past where it began; the one that fails it returns InvalidDescription with
\* the cursor where it was.
C10_PassingIterationAdvances ==
    /\ (IterationEnds /\ pc # "expect") => cursor' >= IterationStart + 2
    /\ (pc = "expect" /\ pc' = "header") => cursor' = cursor + 1
    /\ (IterationEnds /\ pc = "expect" /\ pc' # "panicked") =>
         /\ cursor' = cursor
         /\ result'.kind = "InvalidDescription"

\* C10 as stated: the cursor never decreases and grows by at least 2 in every
\* loop iteration; at the start of every iteration it is below the buffer
\* length and is 0 or the position of a `>`; each completed iteration appends
\* exactly one record; the loop terminates; records are in file order.
C10_ForwardCursorOriginal ==
    /\ [](C10_LoopHead /\ C10_FileOrder)
    /\ [][C10_Step /\ C10_EveryIterationAdvances]_vars
    /\ <>ParseOver

\* C10 amended: as C10, with the growth by at least 2 stated for every loop
\* iteration that passes the `>` check; the iteration that returns
\* InvalidDescription leaves the cursor unchanged.
C10_ForwardCursor ==
    /\ [](C10_LoopHead /\ C10_FileOrder)
    /\ [][C10_Step /\ C10_PassingIterationAdvances]_vars
    /\ <>ParseOver

\* A second iteration starts on the `>` that ended a non-empty body.
C10_Witness ==
    /\ pc = "expect"
    /\ Len(sequences) = 1
    /\ sequences[1].sequence.len >= 1
    /\ cursor >= 3

====
